---- MODULE Spec2Model ----
(***************************************************************************)
(* Session lifecycle and capture binding of the SocialBoredBeta component  *)
(* (web/src/app/page.tsx): the React state (stage, status, participants,   *)
(* stream, camOn, micOn), the two <video> refs, the MediaStreams handed    *)
(* out by getUserMedia, the getUserMedia calls in flight and the pending   *)
(* setTimeout callbacks.  One step is one event-loop task: a click handler *)
(* or a timer / promise callback, followed by the re-render it causes and  *)
(* the [stream, stage] effect.                                             *)
(***************************************************************************)
EXTENDS Integers, Sequences, FiniteSets, TLC

\* ---- bounds of the model ----
MaxStreams == 2     \* MediaStreams granted by getUserMedia in one run
MaxPending == 2     \* getUserMedia calls in flight at once
MaxTimers == 3      \* setTimeout callbacks outstanding (or promised) at once

\* ---- program constants ----
MatchDelay == 800
ConsentDelay == 900
NewcomerDelay == 1000
RosterCap == 3

Null == 0           \* null (no MediaStream / empty srcObject)
NoEl == -1          \* ref.current === null: the <video> is not rendered

Stage == {"idle", "matching", "incall", "consent", "waitingNewcomer"}

you == "You"
partner == "Alex Smith"
newcomer == "Jordan Lee"

StatusReady == "Ready to start"
StatusCamReady == "Camera ready - preview should be visible."
StatusCamError == "Cannot access camera/mic. Allow permissions (lock icon), close Zoom/Discord/FaceTime, then reload."
StatusMatching == "Matching you with someone..."
StatusConnected == "Connected - say hi!"
StatusConsent == "Everyone must consent to add a newcomer..."
StatusSeatOpen == "Seat opened. Finding someone new..."
StatusNewcomer == "Newcomer joined!"
StatusLeft == "Left the board. Ready when you are."

VARIABLES
  stage,          \* useState<Stage>
  status,         \* useState<string>
  participants,   \* useState<Participant[]>, a sequence of participant names
  stream,         \* useState<MediaStream|null>: Null or a stream id
  camOn,          \* useState(false)
  micOn,          \* useState(false)
  lobbySrc,       \* lobbyVideoRef.current: NoEl, or the element's srcObject
  callSrc,        \* callVideoRef.current: NoEl, or the element's srcObject
  acquired,       \* number of MediaStreams getUserMedia has resolved with
  live,           \* ids of the MediaStreams whose tracks have not been stopped
  audioOn,        \* ids of the MediaStreams whose audio track is enabled
  pendingCam,     \* getUserMedia calls in flight, by caller
  timers,         \* pending setTimeout callbacks, in scheduling order
  lastEvent       \* the handler or callback that ran last

vars == <<stage, status, participants, stream, camOn, micOn, lobbySrc, callSrc,
          acquired, live, audioOn, pendingCam, timers, lastEvent>>

Callers == {"preview", "start"}
TimerKinds == {"matched", "consent", "newcomer"}

Range(s) == {s[i] : i \in 1..Len(s)}
RemoveAt(s, i) == SubSeq(s, 1, i - 1) \o SubSeq(s, i + 1, Len(s))

\* ---- rendering ----
LobbyShown(st) == st = "idle"
CallShown(st) == st \in {"incall", "consent", "waitingNewcomer"}

\* both <video> elements kept mounted (hidden) in every stage
RenderEl_KeepMounted(shown, el) == IF el = NoEl THEN Null ELSE el

\* ref.current of a <video> after a render: null when not rendered, a fresh
\* element (srcObject null) when it appears, the same element otherwise
RenderEl(shown, el) == IF ~shown THEN NoEl ELSE IF el = NoEl THEN Null ELSE el

\* srcObject of el after attachStream(el, media)
attachStream(el, media) == IF el = NoEl THEN NoEl ELSE media

\* re-render with the new stage st and stream sm, then the [stream, stage]
\* effect; lob and cal are the refs as the handler left them
Commit(st, sm, lob, cal) ==
  LET lobR == RenderEl(LobbyShown(st), lob)
      calR == RenderEl(CallShown(st), cal)
      run == <<sm, st>> # <<stream, stage>>
  IN /\ lobbySrc' = IF run /\ st = "idle" THEN attachStream(lobR, sm) ELSE lobR
     /\ callSrc' = IF run /\ st # "idle" THEN attachStream(calR, sm) ELSE calR

\* ---- timers ----
Delay(k) == CASE k = "matched" -> MatchDelay
              [] k = "consent" -> ConsentDelay
              [] k = "newcomer" -> NewcomerDelay

\* a callback cannot run before one that was scheduled earlier with a delay
\* that is not longer
CanFire(i) == \A j \in 1..(i - 1) : Delay(timers[j]) > Delay(timers[i])

Outstanding == Len(timers) + pendingCam["start"]
InFlight == pendingCam["preview"] + pendingCam["start"]

Init ==
  /\ stage = "idle"
  /\ status = StatusReady
  /\ participants = <<>>
  /\ stream = Null
  /\ camOn = FALSE
  /\ micOn = FALSE
  /\ lobbySrc = Null
  /\ callSrc = NoEl
  /\ acquired = 0
  /\ live = {}
  /\ audioOn = {}
  /\ pendingCam = [c \in Callers |-> 0]
  /\ timers = <<>>
  /\ lastEvent = "init"

\* ---- camera controls ----

\* startCamera up to its await: one more getUserMedia call in flight
startCameraCall(caller) ==
  pendingCam' = [pendingCam EXCEPT ![caller] = @ + 1]

\* startCamera after getUserMedia resolved with a new MediaStream (both tracks
\* present and enabled): the React state it sets
startCameraResolve(s) ==
  /\ acquired' = s
  /\ live' = live \cup {s}
  /\ audioOn' = audioOn \cup {s}
  /\ stream' = s
  /\ camOn' = TRUE
  /\ micOn' = TRUE

\* the rest of handleStart once the camera is on: enter matching and schedule
\* the mock match
EnterMatching ==
  /\ stage' = "matching"
  /\ status' = StatusMatching
  /\ timers' = Append(timers, "matched")

\* handleStart with the "if (!ok) return" dropped
HandleStartDenied_NoReturn == EnterMatching

\* handleStart after startCamera returned false
HandleStartDenied ==
  /\ status' = StatusCamError
  /\ UNCHANGED <<stage, timers>>

\* "Preview Camera" in the lobby, shown while no stream is held
PreviewCamera ==
  /\ LobbyShown(stage)
  /\ stream = Null
  /\ InFlight < MaxPending
  /\ acquired + InFlight < MaxStreams
  /\ startCameraCall("preview")
  /\ lastEvent' = "previewCamera"
  /\ UNCHANGED <<stage, status, participants, stream, camOn, micOn, lobbySrc,
                 callSrc, acquired, live, audioOn, timers>>

\* "Start Camera" in the call area, shown while no stream is held
CallStartCamera ==
  /\ CallShown(stage)
  /\ stream = Null
  /\ InFlight < MaxPending
  /\ acquired + InFlight < MaxStreams
  /\ startCameraCall("preview")
  /\ lastEvent' = "callStartCamera"
  /\ UNCHANGED <<stage, status, participants, stream, camOn, micOn, lobbySrc,
                 callSrc, acquired, live, audioOn, timers>>

\* getUserMedia of a startCamera call made by a camera button resolves
CameraGranted ==
  /\ pendingCam["preview"] > 0
  /\ pendingCam' = [pendingCam EXCEPT !["preview"] = @ - 1]
  /\ startCameraResolve(acquired + 1)
  /\ status' = StatusCamReady
  /\ Commit(stage, acquired + 1, lobbySrc, callSrc)
  /\ lastEvent' = "cameraGranted"
  /\ UNCHANGED <<stage, participants, timers>>

\* getUserMedia of a startCamera call made by a camera button rejects
CameraDenied ==
  /\ pendingCam["preview"] > 0
  /\ pendingCam' = [pendingCam EXCEPT !["preview"] = @ - 1]
  /\ status' = StatusCamError
  /\ lastEvent' = "cameraDenied"
  /\ UNCHANGED <<stage, participants, stream, camOn, micOn, lobbySrc, callSrc,
                 acquired, live, audioOn, timers>>

\* "Stop Camera" in the lobby, shown while a stream is held
StopCamera ==
  /\ LobbyShown(stage)
  /\ stream # Null
  /\ live' = live \ {stream}
  /\ stream' = Null
  /\ camOn' = FALSE
  /\ micOn' = FALSE
  /\ Commit(stage, Null, attachStream(lobbySrc, Null), attachStream(callSrc, Null))
  /\ lastEvent' = "stopCamera"
  /\ UNCHANGED <<stage, status, participants, acquired, audioOn, pendingCam, timers>>

\* toggleAudio flipping every track of the stream, the video track included
ToggleAudio_AllTracks ==
  /\ CallShown(stage)
  /\ IF stream = Null
       THEN UNCHANGED <<audioOn, micOn, camOn>>
       ELSE /\ audioOn' = IF stream \in audioOn THEN audioOn \ {stream}
                                                ELSE audioOn \cup {stream}
            /\ micOn' = (stream \notin audioOn)
            /\ camOn' = ~camOn
  /\ lastEvent' = "toggleAudio"
  /\ UNCHANGED <<stage, status, participants, stream, lobbySrc, callSrc,
                 acquired, live, pendingCam, timers>>

\* "Mute" / "Unmute" in the call area
ToggleAudio ==
  /\ CallShown(stage)
  /\ IF stream = Null
       THEN UNCHANGED <<audioOn, micOn>>
       ELSE /\ audioOn' = IF stream \in audioOn THEN audioOn \ {stream}
                                                ELSE audioOn \cup {stream}
            /\ micOn' = (stream \notin audioOn)
  /\ lastEvent' = "toggleAudio"
  /\ UNCHANGED <<stage, status, participants, stream, camOn, lobbySrc, callSrc,
                 acquired, live, pendingCam, timers>>

\* ---- mock matching flow ----

\* "Start" in the lobby with the camera on: handleStart runs to its end
HandleStartCamOn ==
  /\ LobbyShown(stage)
  /\ stream # Null /\ camOn
  /\ Outstanding < MaxTimers
  /\ EnterMatching
  /\ Commit("matching", stream, lobbySrc, callSrc)
  /\ lastEvent' = "start"
  /\ UNCHANGED <<participants, stream, camOn, micOn, acquired, live, audioOn,
                 pendingCam>>

\* "Start" in the lobby with the camera off: handleStart awaits startCamera
HandleStartCamOff ==
  /\ LobbyShown(stage)
  /\ ~(stream # Null /\ camOn)
  /\ Outstanding < MaxTimers
  /\ InFlight < MaxPending
  /\ acquired + InFlight < MaxStreams
  /\ startCameraCall("start")
  /\ lastEvent' = "startAwait"
  /\ UNCHANGED <<stage, status, participants, stream, camOn, micOn, lobbySrc,
                 callSrc, acquired, live, audioOn, timers>>

\* getUserMedia resolves for a handleStart that is waiting: startCamera sets
\* the stream and returns true, handleStart goes on
HandleStartGranted ==
  /\ pendingCam["start"] > 0
  /\ pendingCam' = [pendingCam EXCEPT !["start"] = @ - 1]
  /\ startCameraResolve(acquired + 1)
  /\ EnterMatching
  /\ Commit("matching", acquired + 1, lobbySrc, callSrc)
  /\ lastEvent' = "startGranted"
  /\ UNCHANGED participants

\* getUserMedia rejects for a handleStart that is waiting
HandleStartRejected ==
  /\ pendingCam["start"] > 0
  /\ pendingCam' = [pendingCam EXCEPT !["start"] = @ - 1]
  /\ HandleStartDenied
  /\ Commit(stage', stream, lobbySrc, callSrc)
  /\ lastEvent' = "startDenied"
  /\ UNCHANGED <<participants, stream, camOn, micOn, acquired, live, audioOn>>

\* "Add +1" in the control bar, shown while stage is incall
startAddOne ==
  /\ stage = "incall"
  /\ Outstanding < MaxTimers
  /\ stage' = "consent"
  /\ status' = StatusConsent
  /\ timers' = Append(timers, "consent")
  /\ Commit("consent", stream, lobbySrc, callSrc)
  /\ lastEvent' = "addOne"
  /\ UNCHANGED <<participants, stream, camOn, micOn, acquired, live, audioOn,
                 pendingCam>>

\* leaveBoard with setParticipants([]) dropped
leaveBoard_KeepRoster ==
  /\ CallShown(stage)
  /\ stage' = "idle"
  /\ status' = StatusLeft
  /\ Commit("idle", stream, lobbySrc, callSrc)
  /\ lastEvent' = "leave"
  /\ UNCHANGED <<participants, stream, camOn, micOn, acquired, live, audioOn,
                 pendingCam, timers>>

\* "Leave" in the control bar
leaveBoard ==
  /\ CallShown(stage)
  /\ participants' = <<>>
  /\ stage' = "idle"
  /\ status' = StatusLeft
  /\ Commit("idle", stream, lobbySrc, callSrc)
  /\ lastEvent' = "leave"
  /\ UNCHANGED <<stream, camOn, micOn, acquired, live, audioOn, pendingCam, timers>>

\* ---- timer callbacks ----

\* the newcomer callback with the prev.length>=3 test dropped
AddNewcomer_NoCap(prev) == Append(prev, newcomer)

\* the roster after the newcomer callback's setParticipants
AddNewcomer(prev) == IF Len(prev) >= RosterCap THEN prev ELSE Append(prev, newcomer)

\* the match callback seating only the partner
MatchedRoster_PartnerOnly == <<partner>>

\* the roster set by the match callback
MatchedRoster == <<you, partner>>

\* the 800 ms callback of handleStart
OnMatched(i) ==
  /\ timers[i] = "matched"
  /\ timers' = RemoveAt(timers, i)
  /\ participants' = MatchedRoster
  /\ stage' = "incall"
  /\ status' = StatusConnected
  /\ Commit("incall", stream, lobbySrc, callSrc)
  /\ lastEvent' = "matched"

\* the 900 ms callback of startAddOne: schedules the newcomer callback
OnConsent(i) ==
  /\ timers[i] = "consent"
  /\ timers' = Append(RemoveAt(timers, i), "newcomer")
  /\ stage' = "waitingNewcomer"
  /\ status' = StatusSeatOpen
  /\ Commit("waitingNewcomer", stream, lobbySrc, callSrc)
  /\ lastEvent' = "consentGranted"
  /\ UNCHANGED participants

\* the 1000 ms callback scheduled by the consent callback
OnNewcomer(i) ==
  /\ timers[i] = "newcomer"
  /\ timers' = RemoveAt(timers, i)
  /\ participants' = AddNewcomer(participants)
  /\ stage' = "incall"
  /\ status' = StatusNewcomer
  /\ Commit("incall", stream, lobbySrc, callSrc)
  /\ lastEvent' = "newcomerFound"

FireTimer(i) ==
  /\ CanFire(i)
  /\ (OnMatched(i) \/ OnConsent(i) \/ OnNewcomer(i))
  /\ UNCHANGED <<stream, camOn, micOn, acquired, live, audioOn, pendingCam>>

Fire == \E i \in 1..Len(timers) : FireTimer(i)

Resolve == CameraGranted \/ CameraDenied \/ HandleStartGranted \/ HandleStartRejected

Next ==
  \/ PreviewCamera
  \/ CallStartCamera
  \/ CameraGranted
  \/ CameraDenied
  \/ StopCamera
  \/ ToggleAudio
  \/ HandleStartCamOn
  \/ HandleStartCamOff
  \/ HandleStartGranted
  \/ HandleStartRejected
  \/ startAddOne
  \/ leaveBoard
  \/ Fire

Spec == Init /\ [][Next]_vars

\* timers fire and the host answers every getUserMedia call
FairSpec == Spec /\ WF_vars(Fire) /\ WF_vars(Resolve)

TypeOK ==
  /\ stage \in Stage
  /\ stream \in 0..acquired
  /\ live \subseteq 1..acquired
  /\ Len(timers) <= MaxTimers

\* ---- properties ----

TimerEvents == {"matched", "consentGranted", "newcomerFound"}

\* C1: right after leaveBoard the stage is idle, the roster is empty and no
\* capture stream is held any more.
C1_LeaveReleasesCapture ==
  lastEvent = "leave" => (stage = "idle" /\ participants = <<>> /\ stream = Null)

\* C2: a timer callback that fires while the stage is idle (it can only be one
\* that was outstanding when the user left) is discarded: the stage stays idle
\* and the roster stays empty.
C2_StaleTimerDiscarded ==
  [][(stage = "idle" /\ lastEvent' \in TimerEvents)
       => (stage' = "idle" /\ participants' = <<>>)]_vars

\* C3: startAddOne invoked in any state other than stage incall with a roster
\* of two changes neither stage, roster nor status and schedules no callback.
C3_AddOneGuarded ==
  [][(lastEvent' = "addOne" /\ ~(stage = "incall" /\ Len(participants) = 2))
       => UNCHANGED <<stage, participants, status, timers>>]_vars

\* C4: while the held stream is active exactly one surface shows it: the
\* preview <video> in stage idle, the call <video> in every other stage.
C4_OneSurfaceBound ==
  (stream # Null /\ stream \in live)
    => IF stage = "idle" THEN lobbySrc = stream /\ callSrc # stream
                         ELSE callSrc = stream /\ lobbySrc # stream

\* C5: the roster contains the self-participant exactly when the stage is not
\* idle.
C5_SelfIffNotIdle ==
  (you \in Range(participants)) <=> (stage # "idle")

\* C6: at most one MediaStream with unstopped tracks exists at any time.
C6_AtMostOneHandle ==
  Cardinality(live) <= 1

\* C7: when getUserMedia rejects for a waiting handleStart, the stage does not
\* move, no callback is scheduled, the status is the capture error text and
\* the lobby (with its Start button) stays on screen if it was; when it
\* resolves, the stage becomes matching and the match callback is scheduled.
C7_DeniedStartStaysIdle ==
  [][/\ lastEvent' = "startDenied"
          => /\ stage' = stage
             /\ timers' = timers
             /\ status' = StatusCamError
             /\ stream' = stream
             /\ (LobbyShown(stage) => LobbyShown(stage'))
     /\ lastEvent' = "startGranted"
          => /\ stage' = "matching"
             /\ timers' = Append(timers, "matched")]_vars

\* C7 witness: a Start whose capture request was refused, back in the lobby
\* with the error shown and nothing scheduled
C7_Witness ==
  /\ lastEvent = "startDenied"
  /\ stage = "idle"
  /\ status = StatusCamError
  /\ timers = <<>>
  /\ stream = Null

\* C8: the roster never holds more than three participants.
C8_RosterAtMostThree ==
  Len(participants) <= 3

\* C8 witness: a full roster right after a newcomer callback, with a further
\* newcomer callback still to come
C8_Witness ==
  /\ Len(participants) = 3
  /\ lastEvent = "newcomerFound"
  /\ "newcomer" \in Range(timers)

\* C9: in stage idle the roster is empty and the call <video> does not show
\* a capture stream.
C9_IdleIsEmpty ==
  stage = "idle" => (participants = <<>> /\ callSrc \in {NoEl, Null})

\* C9 witness: back in the lobby after a leave from a seated call, with the
\* capture still held
C9_Witness ==
  /\ stage = "idle"
  /\ lastEvent = "leave"
  /\ stream # Null
  /\ stream \in live

\* C10: a Start whose camera is on puts the stage to matching, and from
\* matching the stage eventually is incall with the roster [self, matched].
C10_StartLeadsToInCall ==
  /\ [][lastEvent' \in {"start", "startGranted"} => stage' = "matching"]_vars
  /\ (stage = "matching") ~> (stage = "incall" /\ participants = <<you, partner>>)

\* C10 witness: the match callback has seated the user with the partner
C10_Witness ==
  /\ lastEvent = "matched"
  /\ stage = "incall"
  /\ participants = <<you, partner>>

UserEvents == {"previewCamera", "callStartCamera", "stopCamera", "toggleAudio",
               "start", "startAwait", "addOne", "leave"}

\* C11: Add +1 on a roster of two puts the stage to consent; from there, as
\* long as the user does nothing, the only change of stage or roster is to
\* waitingNewcomer with the same roster, and from waitingNewcomer the only
\* change is to incall with the newcomer appended to the two seated.
C11_AddOneScenario ==
  [][/\ (lastEvent' = "addOne" /\ Len(participants) = 2)
          => (stage = "incall" /\ stage' = "consent" /\ participants' = participants)
     /\ (/\ lastEvent' \notin UserEvents
         /\ Len(participants) = 2
         /\ <<stage, participants>>' # <<stage, participants>>)
          => /\ stage = "consent"
                  => (stage' = "waitingNewcomer" /\ participants' = participants)
             /\ stage = "waitingNewcomer"
                  => (stage' = "incall" /\ participants' = Append(participants, newcomer))
    ]_vars

\* C12: a toggleAudio step flips micOn (nothing when no stream is held) and
\* leaves camOn, the stream, its tracks, the stage and the roster alone; and
\* no step taken in a stage other than idle turns the video off, stops a
\* stream's tracks or drops the held stream.
C12_ToggleAudioOnlyMic ==
  [][/\ lastEvent' = "toggleAudio"
          => /\ UNCHANGED <<camOn, stream, live, stage, participants>>
             /\ micOn' = IF stream = Null THEN micOn ELSE ~micOn
     /\ stage # "idle"
          => /\ camOn => camOn'
             /\ live \subseteq live'
             /\ stream # Null => stream' # Null]_vars

\* C12 witness: muted in a call by toggleAudio, the camera still on
C12_Witness ==
  /\ lastEvent = "toggleAudio"
  /\ stage = "incall"
  /\ stream # Null
  /\ stream \in live
  /\ camOn
  /\ ~micOn

\* C13: a newcomer callback that fires on a roster of three changes nothing:
\* the stage is and stays incall, the roster and the status are as before.
C13_FullRosterNewcomerDiscarded ==
  [][(lastEvent' = "newcomerFound" /\ Len(participants) = 3)
       => (stage' = "incall" /\ UNCHANGED <<stage, participants, status>>)]_vars

\* C14: in every stage other than idle the Leave control is on screen, so the
\* user can take the leaveBoard step (which ends in idle).
C14_LeaveAlwaysOffered ==
  stage # "idle" => ENABLED leaveBoard

\* C15: the two <video> elements never show a stream at the same time; a
\* stream is shown only by the preview in stage idle and only by the call
\* tile in the other stages, and the one shown is the stream that is held.
C15_NoDoubleBinding ==
  /\ ~(lobbySrc \in 1..acquired /\ callSrc \in 1..acquired)
  /\ stage = "idle" => callSrc \notin 1..acquired
  /\ stage # "idle" => lobbySrc \notin 1..acquired
  /\ lobbySrc \in 1..acquired => lobbySrc = stream
  /\ callSrc \in 1..acquired => callSrc = stream

\* C15 witness: the stream previewed in the lobby is now shown by the call
\* tile, and the preview element is gone
C15_Witness ==
  /\ stage = "incall"
  /\ lastEvent = "matched"
  /\ stream \in live
  /\ callSrc = stream
  /\ lobbySrc = NoEl

\* C16: in every stage other than idle a live stream is held with the video
\* on.
C16_CameraHeldInRoom ==
  stage # "idle" => (stream # Null /\ stream \in live /\ camOn)

\* C17: the stage changes only along the edges of the stage diagram (idle to
\* matching, matching or waitingNewcomer to incall, incall to consent, consent
\* to waitingNewcomer), or to idle by leaveBoard.
C17_StageFollowsTable ==
  [][stage' # stage
       => \/ <<stage, stage'>> \in {<<"idle", "matching">>, <<"matching", "incall">>,
                                     <<"waitingNewcomer", "incall">>,
                                     <<"incall", "consent">>,
                                     <<"consent", "waitingNewcomer">>}
          \/ (stage' = "idle" /\ lastEvent' = "leave")]_vars

\* C18: a match callback is applied only in stage matching, on a roster that
\* no earlier match callback of this session has seated.
C18_OneMatchPerSession ==
  [][lastEvent' = "matched" => (stage = "matching" /\ participants = <<>>)]_vars

\* C19: right after a refused getUserMedia no stream is held and camOn and
\* micOn are false.
C19_FailureHoldsNothing ==
  lastEvent \in {"startDenied", "cameraDenied"}
    => (stream = Null /\ ~camOn /\ ~micOn)

====
